---------------------------- MODULE Spec2Model ----------------------------
(***************************************************************************)
(* Memory game (src/js/script.js): MemoryButton, UIHandler, GameEngine.    *)
(* One logical actor runs the Go handler, the piece click handlers and the  *)
(* setTimeout callbacks; each handler is one atomic action.                 *)
(* Time is counted in units of 1000 ms: a pending timer carries the number  *)
(* of units left before it is due.                                          *)
(***************************************************************************)
EXTENDS Integers, Sequences, FiniteSets, TLC

\* ---- bounds of the model ------------------------------------------------
MaxStaleWork == 16  \* work a restart may leave behind in the pending chains (see StaleWork)
MaxInputLen == 2    \* characters typed in the number input (SpecInput)
RandDen == 2        \* Math.random() is drawn from {0/RandDen .. (RandDen-1)/RandDen}

\* ---- program constants --------------------------------------------------
MinButtons == 3
MaxButtons == 7
btnWidth == 160
btnHeight == 80
ScrambleDelay == 2

\* MESSAGES keys used by displayStatus
MsgNone == ""
MsgInvalid == "invalidInput"
MsgWin == "excellentMemory"
MsgWrong == "wrongOrder"

\* values of the input in Spec: one character
Chars == {"3", "4", "5", "6", "7", "8", "a"}
Keys == {<<c>> : c \in Chars}
\* values of the input in SpecInput: up to MaxInputLen characters
InputChars == {" ", "-", "0", "3", "7", "8", "a"}
Inputs == UNION {[1..k -> InputChars] : k \in 0..MaxInputLen}

\* window.innerWidth x window.innerHeight values of the environment
Viewports == {100, 160, 163} \X {60, 80, 82}
\* the window of Spec: a piece just fits, so no piece moves away from the origin
FixedViewport == <<160, 80>>

\* ---- state ---------------------------------------------------------------
VARIABLES
    buttons,        \* GameEngine.buttons: sequence of MemoryButton records
    expectedOrder,  \* GameEngine.expectedOrder
    isScrambling,   \* GameEngine.isScrambling
    status,         \* UIHandler.messageDisplay.textContent
    timers,         \* pending setTimeout callbacks, in registration order
    window,         \* <<innerWidth, innerHeight>>
    relocs,         \* history: scramble iterations applied to the current buttons
    shownMsgs,      \* history: win / wrong-order messages displayed since startGame
    lastOp,         \* history: the handler that ran last
    lastInput,      \* history: the input value read in the last step, if it ran the Go handler
    clock           \* history: time units since startGame, up to the end of the round's schedule

vars == <<buttons, expectedOrder, isScrambling, status, timers, window,
          relocs, shownMsgs, lastOp, lastInput, clock>>

\* the fields of the GameEngine instance (gameArea holds the elements of buttons),
\* the status text and the pending callbacks
Engine ==
    [buttons |-> buttons, expectedOrder |-> expectedOrder,
     isScrambling |-> isScrambling, status |-> status, timers |-> timers]

\* ---- parseInt ------------------------------------------------------------
NaN == [nan |-> TRUE, v |-> 0]
Num(k) == [nan |-> FALSE, v |-> k]

IsDigit(c) == c \in {"0", "1", "2", "3", "4", "5", "6", "7", "8", "9"}

DigitVal(c) ==
    CASE c = "0" -> 0 [] c = "1" -> 1 [] c = "2" -> 2 [] c = "3" -> 3
      [] c = "4" -> 4 [] c = "5" -> 5 [] c = "6" -> 6 [] c = "7" -> 7
      [] c = "8" -> 8 [] c = "9" -> 9

RECURSIVE SkipSpaces(_)
SkipSpaces(s) ==
    IF s # << >> /\ Head(s) = " " THEN SkipSpaces(Tail(s)) ELSE s

RECURSIVE DigitPrefix(_)
DigitPrefix(s) ==
    IF s # << >> /\ IsDigit(Head(s)) THEN <<Head(s)>> \o DigitPrefix(Tail(s)) ELSE << >>

RECURSIVE DigitsValue(_, _)
DigitsValue(ds, acc) ==
    IF ds = << >> THEN acc ELSE DigitsValue(Tail(ds), 10 * acc + DigitVal(Head(ds)))

parseInt(str) ==
    LET s == SkipSpaces(str)
        neg == s # << >> /\ Head(s) = "-"
        body == IF s # << >> /\ Head(s) \in {"-", "+"} THEN Tail(s) ELSE s
        ds == DigitPrefix(body)
    IN  IF ds = << >> THEN NaN
        ELSE Num(IF neg THEN 0 - DigitsValue(ds, 0) ELSE DigitsValue(ds, 0))

\* val >= 3 && val <= 7 ; every comparison with NaN is false
InRangeNoUpper(val) == ~val.nan /\ val.v >= MinButtons
InRangeOrNaN(val) == val.nan \/ (val.v >= MinButtons /\ val.v <= MaxButtons)
InRange(val) == ~val.nan /\ val.v >= MinButtons /\ val.v <= MaxButtons

\* ---- MemoryButton --------------------------------------------------------
\* constructor + createHTMLElement: label shown, no onclick handler; the element
\* is laid out in the row (position relative, no left/top) by generateButtons
MemoryButton(originalOrder) ==
    [order |-> originalOrder, shown |-> TRUE, onclick |-> FALSE,
     position |-> "relative", x |-> 0, y |-> 0]

setPosition(btn, px, py) == [btn EXCEPT !.x = px, !.y = py]
showNumber(btn, show) == [btn EXCEPT !.shown = show]
enableClick(btn) == [btn EXCEPT !.onclick = TRUE]
disableClick(btn) == [btn EXCEPT !.onclick = FALSE]

\* ---- GameEngine ----------------------------------------------------------
Max(a, b) == IF a >= b THEN a ELSE b

\* Math.max(0, Math.floor(Math.random() * max)) with Math.random() = r / RandDen
RandomCoordNoClamp(r, max) == (r * max) \div RandDen
RandomCoord(r, max) == Max(0, (r * max) \div RandDen)

getRandomPosition(win, rx, ry) ==
    LET maxX == win[1] - btnWidth
        maxY == win[2] - btnHeight
    IN  [x |-> RandomCoord(rx, maxX), y |-> RandomCoord(ry, maxY)]

\* the positions getRandomPosition can return in a window, over all random draws
RandomPositions(win) ==
    {getRandomPosition(win, rx, ry) : rx \in 0..(RandDen - 1), ry \in 0..(RandDen - 1)}

\* resetGame() on the engine g: empties gameArea and buttons, sets expectedOrder
\* and isScrambling; it clears no timer and leaves the status text
resetGameKeepOrder(g) == [g EXCEPT !.buttons = << >>, !.isScrambling = FALSE]
resetGame(g) ==
    [g EXCEPT !.buttons = << >>, !.expectedOrder = 1, !.isScrambling = FALSE]

\* generateButtons(n): pushes n new buttons onto this.buttons (bs)
generateButtonsFromZero(bs, n) == bs \o [i \in 1..n |-> MemoryButton(i - 1)]
generateButtons(bs, n) == bs \o [i \in 1..n |-> MemoryButton(i)]

\* a setTimeout whose callback is () => this.scrambleSequence(n, remaining);
\* scrambleSequence passes n along and never reads it, so the callback is kept
\* as its remaining count. delay: time units left; dur: the delay it was set with;
\* stale (history): startGame has run since the chain of this timer was started.
Timer(remaining, delay, isStale) ==
    [remaining |-> remaining, delay |-> delay, dur |-> delay, stale |-> isStale]

\* the work left in the chains of ts: per pending timer, MaxButtons + 1 plus the
\* iterations it still has to run (one chain of any size weighs at most 15)
RECURSIVE StaleWork(_)
StaleWork(ts) ==
    IF ts = << >> THEN 0
    ELSE MaxButtons + 1 + Head(ts).remaining + StaleWork(Tail(ts))

MarkStale(ts) == [i \in 1..Len(ts) |-> [ts[i] EXCEPT !.stale = TRUE]]

RemoveAt(s, i) == SubSeq(s, 1, i - 1) \o SubSeq(s, i + 1, Len(s))

\* startGame(n): resetGame(); generateButtons(n); setTimeout(..., n * 1000)
startGameNoPause(n) ==
    LET g == resetGame(Engine) IN
    /\ buttons' = generateButtons(g.buttons, n)
    /\ expectedOrder' = g.expectedOrder
    /\ isScrambling' = g.isScrambling
    /\ timers' = Append(MarkStale(g.timers), Timer(n, 0, FALSE))
    /\ relocs' = 0
    /\ shownMsgs' = {}
    /\ clock' = 0
startGame(n) ==
    LET g == resetGame(Engine) IN
    /\ buttons' = generateButtons(g.buttons, n)
    /\ expectedOrder' = g.expectedOrder
    /\ isScrambling' = g.isScrambling
    /\ timers' = Append(MarkStale(g.timers), Timer(n, n, FALSE))
    /\ relocs' = 0
    /\ shownMsgs' = {}
    /\ clock' = 0

\* goBtn.onclick with this.input.value = str; lastOp.flag: the callback was invoked
GoClick(str) ==
    LET val == parseInt(str) IN
    /\ lastInput' = str
    /\ window' = window
    /\ IF InRange(val)
       THEN /\ StaleWork(timers) <= MaxStaleWork
            /\ status' = MsgNone
            /\ startGame(val.v)
            /\ lastOp' = [op |-> "go", flag |-> TRUE]
       ELSE /\ status' = MsgInvalid
            /\ lastOp' = [op |-> "go", flag |-> FALSE]
            /\ UNCHANGED <<buttons, expectedOrder, isScrambling, timers, relocs,
                           shownMsgs, clock>>

\* prepareForUser(): the buttons it leaves
prepareForUser(bs) == [i \in 1..Len(bs) |-> enableClick(showNumber(bs[i], FALSE))]

\* revealAll(): the buttons it leaves
revealAll(bs) == [i \in 1..Len(bs) |-> disableClick(showNumber(bs[i], TRUE))]

\* scrambleSequence(n, remaining) run by the i-th pending timer
scrambleSequenceRearms(i) ==
    LET t == timers[i] IN
    IF t.remaining <= 0
    THEN /\ isScrambling' = FALSE
         /\ buttons' = prepareForUser(buttons)
         /\ timers' = Append(RemoveAt(timers, i), Timer(0, ScrambleDelay, t.stale))
         /\ relocs' = relocs
    ELSE /\ isScrambling' = TRUE
         /\ relocs' = relocs + 1
         /\ \E pos \in [1..Len(buttons) -> RandomPositions(window)] :
              buttons' = [k \in 1..Len(buttons) |->
                             setPosition([buttons[k] EXCEPT !.position = "absolute"],
                                         pos[k].x, pos[k].y)]
         /\ timers' = Append(RemoveAt(timers, i),
                             Timer(t.remaining - 1, ScrambleDelay, t.stale))
scrambleSequence(i) ==
    LET t == timers[i] IN
    IF t.remaining <= 0
    THEN /\ isScrambling' = FALSE
         /\ buttons' = prepareForUser(buttons)
         /\ timers' = RemoveAt(timers, i)
         /\ relocs' = relocs
    ELSE /\ isScrambling' = TRUE
         /\ relocs' = relocs + 1
         /\ \E pos \in [1..Len(buttons) -> RandomPositions(window)] :
              buttons' = [k \in 1..Len(buttons) |->
                             setPosition([buttons[k] EXCEPT !.position = "absolute"],
                                         pos[k].x, pos[k].y)]
         /\ timers' = Append(RemoveAt(timers, i),
                             Timer(t.remaining - 1, ScrambleDelay, t.stale))

\* a due timer runs; timers set with equal delays run in registration order
Due(i) ==
    /\ timers[i].delay = 0
    /\ \A j \in 1..(i - 1) : ~(timers[j].delay = 0 /\ timers[j].dur = timers[i].dur)

\* a setTimeout callback runs; lastOp.flag: it was scheduled by an earlier round
TimerFire(i) ==
    /\ Due(i)
    /\ lastOp' = [op |-> IF timers[i].remaining <= 0 THEN "prepare" ELSE "scramble",
                  flag |-> timers[i].stale]
    /\ scrambleSequence(i)
    /\ lastInput' = << >>
    /\ UNCHANGED <<expectedOrder, status, window, shownMsgs, clock>>

\* handleButtonClick(btn) for btn = buttons[i], past the scrambling guard
processClickAlwaysCounts(i) ==
    /\ expectedOrder' = expectedOrder + 1
    /\ IF buttons[i].order = expectedOrder
       THEN /\ buttons' = [buttons EXCEPT ![i] = disableClick(showNumber(@, TRUE))]
            /\ status' = IF expectedOrder = Len(buttons) THEN MsgWin ELSE status
            /\ shownMsgs' = IF expectedOrder = Len(buttons)
                            THEN shownMsgs \cup {MsgWin} ELSE shownMsgs
       ELSE /\ status' = MsgWrong
            /\ shownMsgs' = shownMsgs \cup {MsgWrong}
            /\ buttons' = revealAll(buttons)
processClick(i) ==
    IF buttons[i].order = expectedOrder
    THEN /\ buttons' = [buttons EXCEPT ![i] = disableClick(showNumber(@, TRUE))]
         /\ status' = IF expectedOrder = Len(buttons) THEN MsgWin ELSE status
         /\ shownMsgs' = IF expectedOrder = Len(buttons)
                         THEN shownMsgs \cup {MsgWin} ELSE shownMsgs
         /\ expectedOrder' = expectedOrder + 1
    ELSE /\ status' = MsgWrong
         /\ shownMsgs' = shownMsgs \cup {MsgWrong}
         /\ buttons' = revealAll(buttons)
         /\ expectedOrder' = expectedOrder

\* handleButtonClick(btn) for btn = buttons[i]
handleButtonClickNoGuard(i) == processClick(i)
handleButtonClick(i) ==
    IF isScrambling
    THEN UNCHANGED <<buttons, status, expectedOrder, shownMsgs>>
    ELSE processClick(i)

\* the user clicks the element of buttons[i], whose onclick is set (a click on an
\* element whose onclick is null runs no code); lastOp.flag: the scrambling flag
\* was set when the click was delivered
Click(i) ==
    /\ buttons[i].onclick
    /\ lastOp' = [op |-> "click", flag |-> isScrambling]
    /\ handleButtonClick(i)
    /\ lastInput' = << >>
    /\ UNCHANGED <<isScrambling, timers, window, relocs, clock>>

\* the time at which the chain of startGame(n) calls prepareForUser: the
\* n * 1000 ms of startGame and n times the 2000 ms of scrambleSequence
ScheduleEnd(n) == n + ScrambleDelay * n

\* one time unit (1000 ms) passes; a due timer runs before time moves on.
\* clock stops one unit past the end of the round's schedule.
Tick ==
    /\ timers # << >>
    /\ \A i \in 1..Len(timers) : timers[i].delay > 0
    /\ timers' = [i \in 1..Len(timers) |-> [timers[i] EXCEPT !.delay = @ - 1]]
    /\ clock' = IF clock > ScheduleEnd(Len(buttons)) THEN clock ELSE clock + 1
    /\ lastInput' = << >>
    /\ UNCHANGED <<buttons, expectedOrder, isScrambling, status, window,
                   relocs, shownMsgs, lastOp>>

\* the user resizes the browser window
Resize(win) ==
    /\ win # window
    /\ window' = win
    /\ lastOp' = [op |-> "resize", flag |-> FALSE]
    /\ lastInput' = << >>
    /\ UNCHANGED <<buttons, expectedOrder, isScrambling, status, timers,
                   relocs, shownMsgs, clock>>

\* new GameEngine()
Construct ==
    /\ buttons = << >>
    /\ expectedOrder = 1
    /\ isScrambling = FALSE
    /\ status = MsgNone
    /\ timers = << >>
    /\ relocs = 0
    /\ shownMsgs = {}
    /\ lastOp = [op |-> "init", flag |-> FALSE]
    /\ lastInput = << >>
    /\ clock = 0

\* ---- Spec: the game in a window that is never resized ---------------------
Init == Construct /\ window = FixedViewport

Next ==
    \/ \E str \in Keys : GoClick(str)
    \/ \E i \in 1..Len(timers) : TimerFire(i)
    \/ \E i \in 1..Len(buttons) : Click(i)
    \/ Tick

Spec == Init /\ [][Next]_vars

\* ---- SpecFair: Spec with the event loop's scheduling: time passes, and a
\* ---- callback whose delay has elapsed is run -----------------------------------
Fairness ==
    /\ WF_vars(Tick)
    /\ WF_vars(\E i \in 1..Len(timers) : TimerFire(i))

SpecFair == Spec /\ Fairness

\* ---- SpecInput: one chain at a time, longer values of the input ------------
NextInput ==
    \/ \E str \in Inputs : timers = << >> /\ GoClick(str)
    \/ \E i \in 1..Len(timers) : TimerFire(i)
    \/ \E i \in 1..Len(buttons) : Click(i)
    \/ Tick

SpecInput == Init /\ [][NextInput]_vars

\* ---- SpecPos: rounds of three pieces, one chain at a time, in a window the
\* ---- user resizes ----------------------------------------------------------
InitPos == Construct /\ window \in Viewports

NextPos ==
    \/ timers = << >> /\ GoClick(<<"3">>)
    \/ \E i \in 1..Len(timers) : TimerFire(i)
    \/ \E i \in 1..Len(buttons) : Click(i)
    \/ Tick
    \/ \E win \in Viewports : Resize(win)

SpecPos == InitPos /\ [][NextPos]_vars

\* ---- phases of the current round, read off its own (non-stale) timer --------
OwnTimers == {i \in 1..Len(timers) : ~timers[i].stale}
\* from startGame until the round's first relocation
Memorizing == \E i \in OwnTimers : timers[i].remaining = Len(buttons)
\* from the round's first relocation until its own countdown reaches zero
Scrambling == \E i \in OwnTimers : timers[i].remaining < Len(buttons)
\* the round's own chain has called prepareForUser (AwaitingInput, Won or Lost)
AwaitingInput == buttons # << >> /\ OwnTimers = {}

AllRevealedAndDisabled(bs) == \A k \in 1..Len(bs) : bs[k].shown /\ ~bs[k].onclick

\* the input does not parse, or parses to an integer outside [3,7]
InvalidInput(str) ==
    LET v == parseInt(str) IN v.nan \/ v.v < 3 \/ v.v > 7

\* ---- claims ----------------------------------------------------------------

\* C1: a callback scheduled by an earlier round (a stale timer) never relocates
\* the current round's pieces, never changes the scrambling flag, never hides or
\* reveals labels and never enables or disables clicks.
C1_StaleCallbacksInert ==
    [][\A i \in 1..Len(timers) :
          (timers[i].stale /\ TimerFire(i)) => UNCHANGED <<buttons, isScrambling>>]_vars

\* C2: in AwaitingInput, before the round has ended, a click on a piece whose
\* originalOrder differs from expectedOrder reveals all labels, disables all clicks
\* and shows the wrong-order message; after the wrong-order message every further
\* click of the round changes nothing.
C2_WrongClickEndsRound ==
    [][/\ \A i \in 1..Len(buttons) :
            (/\ AwaitingInput
             /\ shownMsgs = {}
             /\ buttons[i].order # expectedOrder
             /\ Click(i))
            => (status' = MsgWrong /\ AllRevealedAndDisabled(buttons'))
       /\ \A i \in 1..Len(buttons) :
            (MsgWrong \in shownMsgs /\ Click(i))
            => UNCHANGED <<expectedOrder, buttons, status>>]_vars

\* C3: in AwaitingInput, before the round has ended, a click on the piece whose
\* originalOrder is expectedOrder reveals its label, disables its clicks, moves
\* expectedOrder on, shows the win message exactly when it was the n-th piece and
\* never shows the wrong-order message.
C3_OrderedClicksWin ==
    [][\A i \in 1..Len(buttons) :
          (/\ AwaitingInput
           /\ shownMsgs = {}
           /\ buttons[i].order = expectedOrder
           /\ Click(i))
          => (/\ buttons'[i].shown
              /\ ~buttons'[i].onclick
              /\ expectedOrder' = expectedOrder + 1
              /\ (status' = MsgWin) <=> (buttons[i].order = Len(buttons))
              /\ status' # MsgWrong)]_vars

\* C4: a click delivered to handleButtonClick while the scrambling flag is set
\* changes neither expectedOrder, nor any label or click handler, nor the
\* scrambling flag, nor the status text.
C4_ClickWhileScramblingIgnored ==
    [][\A i \in 1..Len(buttons) :
          (isScrambling /\ Click(i))
          => UNCHANGED <<expectedOrder, buttons, isScrambling, status>>]_vars

\* C4 witness: a click has just been delivered while the scrambling flag was set.
C4_Witness ==
    /\ lastOp = [op |-> "click", flag |-> TRUE]
    /\ isScrambling
    /\ \E k \in 1..Len(buttons) : buttons[k].onclick

\* C5: a click on a piece while the current round is Memorizing or Scrambling
\* changes neither expectedOrder, nor any label or click handler, nor the status.
C5_EarlyClicksIgnored ==
    [][\A i \in 1..Len(buttons) :
          ((Memorizing \/ Scrambling) /\ Click(i))
          => UNCHANGED <<expectedOrder, buttons, status>>]_vars

\* C6: when the round's own countdown calls prepareForUser, the pieces of the
\* round have been relocated exactly n times since startGame(n).
C6_ExactlyNRelocations ==
    (lastOp = [op |-> "prepare", flag |-> FALSE]) => relocs = Len(buttons)

\* C7: startGame(n) leaves exactly n newly created pieces with originalOrder
\* 1..n in creation order, and no other step changes the number of pieces or the
\* originalOrder of a piece.
C7_StartGameButtons ==
    [][/\ (GoClick(lastInput') /\ ~InvalidInput(lastInput'))
            => (/\ Len(buttons') = parseInt(lastInput').v
                /\ \A k \in 1..Len(buttons') :
                      /\ buttons'[k].order = k
                      /\ buttons'[k].shown
                      /\ ~buttons'[k].onclick
                      /\ buttons'[k].position = "relative")
       /\ \/ lastOp' = [op |-> "go", flag |-> TRUE]
          \/ /\ Len(buttons') = Len(buttons)
             /\ \A k \in 1..Len(buttons) : buttons'[k].order = buttons[k].order]_vars

\* C7 witness: a round of seven pieces has just replaced an unfinished round.
C7_Witness ==
    /\ lastOp = [op |-> "go", flag |-> TRUE]
    /\ Len(buttons) = 7
    /\ \E i \in 1..Len(timers) : timers[i].stale

\* C8: an activation whose input does not parse or lies outside [3,7] never
\* invokes onStart and shows the invalid-input message.
C8_InvalidInputRejected ==
    [][(GoClick(lastInput') /\ InvalidInput(lastInput'))
          => (status' = MsgInvalid /\ lastOp' = [op |-> "go", flag |-> FALSE])]_vars

\* C8 witness: the input "37" has just been rejected with the invalid-input message.
C8_Witness ==
    /\ lastOp = [op |-> "go", flag |-> FALSE]
    /\ lastInput = <<"3", "7">>
    /\ status = MsgInvalid

\* C9: an activation with an invalid round size leaves the pieces, expectedOrder,
\* the scrambling flag and every pending timer unchanged.
C9_InvalidInputFrame ==
    [][(GoClick(lastInput') /\ InvalidInput(lastInput'))
          => UNCHANGED <<buttons, expectedOrder, isScrambling, timers>>]_vars

\* C9 witness: an activation has just been rejected while a round was scrambling.
C9_Witness ==
    /\ lastOp = [op |-> "go", flag |-> FALSE]
    /\ lastInput = <<"8">>
    /\ isScrambling
    /\ timers # << >>
    /\ \E k \in 1..Len(buttons) : buttons[k].position = "absolute"

\* C10: right after a relocation every piece is at 0 <= x <= innerWidth - 160 and
\* 0 <= y <= innerHeight - 80 where the window is at least as large as the piece,
\* and at 0 in a dimension where the window is smaller than the piece.
C10_PositionInViewport ==
    lastOp.op = "scramble" =>
        \A k \in 1..Len(buttons) :
            /\ IF window[1] >= 160
               THEN 0 <= buttons[k].x /\ buttons[k].x <= window[1] - 160
               ELSE buttons[k].x = 0
            /\ IF window[2] >= 80
               THEN 0 <= buttons[k].y /\ buttons[k].y <= window[2] - 80
               ELSE buttons[k].y = 0

\* C10 witness: after a relocation in a window narrower than a piece and taller
\* than it, a piece sits at x = 0 and y > 0.
C10_Witness ==
    /\ lastOp.op = "scramble"
    /\ window[1] < 160
    /\ window[2] > 80
    /\ \E k \in 1..Len(buttons) : buttons[k].x = 0 /\ buttons[k].y > 0

\* a step that ran startGame: the Go handler read a value in [3,7]
StartStep == GoClick(lastInput') /\ ~InvalidInput(lastInput')

\* C11: in every state 1 <= expectedOrder <= n + 1 for the n pieces of the round;
\* a step that is not a startGame leaves expectedOrder or adds one to it, and it
\* adds one only when it is a click on the piece whose originalOrder is expectedOrder.
C11_ExpectedOrderBounds ==
    /\ [](1 <= expectedOrder /\ expectedOrder <= Len(buttons) + 1)
    /\ [][~StartStep =>
             \/ expectedOrder' = expectedOrder
             \/ /\ expectedOrder' = expectedOrder + 1
                /\ \E i \in 1..Len(buttons) :
                      Click(i) /\ buttons[i].order = expectedOrder]_vars

\* C11 witness: the last correct click of a round of seven has just moved
\* expectedOrder to n + 1.
C11_Witness ==
    /\ lastOp = [op |-> "click", flag |-> FALSE]
    /\ Len(buttons) = MaxButtons
    /\ expectedOrder = Len(buttons) + 1
    /\ status = MsgWin

\* the controller's phase: Won / Lost once the win / wrong-order message has been
\* shown in the round, otherwise the place of the round's own countdown
Phase ==
    IF buttons = << >> THEN "Idle"
    ELSE IF MsgWin \in shownMsgs THEN "Won"
    ELSE IF MsgWrong \in shownMsgs THEN "Lost"
    ELSE IF Memorizing THEN "Memorizing"
    ELSE IF Scrambling THEN "Scrambling"
    ELSE "AwaitingInput"

PhaseSteps ==
    {<<"Memorizing", "Scrambling">>, <<"Scrambling", "AwaitingInput">>,
     <<"AwaitingInput", "Won">>, <<"AwaitingInput", "Lost">>}

\* C12: a startGame leads to Memorizing; any other step keeps the phase or moves
\* it one step along Memorizing -> Scrambling -> AwaitingInput -> (Won | Lost);
\* and from AwaitingInput, Won or Lost such a step never sets the scrambling flag,
\* never hides a visible label and never enables a disabled click.
C12_PhaseOrder ==
    [][IF StartStep
       THEN Phase' = "Memorizing"
       ELSE /\ Phase' = Phase \/ <<Phase, Phase'>> \in PhaseSteps
            /\ Phase \in {"AwaitingInput", "Won", "Lost"} =>
                  /\ ~isScrambling'
                  /\ \A k \in 1..Len(buttons) :
                        /\ buttons[k].shown => buttons'[k].shown
                        /\ buttons'[k].onclick => buttons[k].onclick]_vars

\* C13: with the clock at 0 when startGame(n) runs, the callbacks of the round's
\* chain relocate at times n, n + 2, ..., n + 2 (n - 1), the k-th at
\* n + 2 (k - 1); the chain calls prepareForUser at time n + 2 n, which leaves
\* the round in AwaitingInput with all labels hidden; and no callback of the
\* chain is pending past its time.
C13_RoundTiming ==
    /\ [][\A i \in 1..Len(timers) :
             (TimerFire(i) /\ ~timers[i].stale) =>
                IF timers[i].remaining > 0
                THEN /\ clock = Len(buttons) + 2 * (Len(buttons) - timers[i].remaining)
                     /\ \A k \in 1..Len(buttons) : buttons'[k].position = "absolute"
                ELSE /\ clock = Len(buttons) + 2 * Len(buttons)
                     /\ AwaitingInput'
                     /\ \A k \in 1..Len(buttons) : ~buttons'[k].shown]_vars
    /\ [](\A i \in OwnTimers :
             clock <= Len(buttons) + 2 * (Len(buttons) - timers[i].remaining))

\* C13 witness: the chain of a round of three pieces has just called
\* prepareForUser, 3 + 6 time units after startGame(3).
C13_Witness ==
    /\ lastOp = [op |-> "prepare", flag |-> FALSE]
    /\ Len(buttons) = 3
    /\ clock = 9
    /\ AwaitingInput
    /\ \A k \in 1..Len(buttons) : ~buttons[k].shown

\* C14: in every reachable state, resetGame applied twice leaves what resetGame
\* applied once leaves, and what it leaves has no piece, expectedOrder = 1 and the
\* scrambling flag cleared.
C14_ResetGameIdempotent ==
    /\ resetGame(resetGame(Engine)) = resetGame(Engine)
    /\ resetGame(Engine).buttons = << >>
    /\ resetGame(Engine).expectedOrder = 1
    /\ resetGame(Engine).isScrambling = FALSE

\* C14 witness: a state in which resetGame changes all three fields, with a
\* callback pending.
C14_Witness ==
    /\ buttons # << >>
    /\ expectedOrder > 1
    /\ isScrambling
    /\ timers # << >>
    /\ resetGame(Engine) # Engine

\* C15: when the round's own countdown has just called prepareForUser (the round
\* enters AwaitingInput), the scrambling flag is false, expectedOrder = 1, and
\* every piece has its label hidden and its click handler installed.
C15_AwaitingInputEntry ==
    [][\A i \in 1..Len(timers) :
          (TimerFire(i) /\ ~timers[i].stale /\ timers[i].remaining <= 0) =>
             /\ ~isScrambling'
             /\ expectedOrder' = 1
             /\ \A k \in 1..Len(buttons') :
                   ~buttons'[k].shown /\ buttons'[k].onclick]_vars

\* C16: unless startGame is issued again and again, the countdown of the round
\* ends: from some point on the round's own chain has no callback pending (it
\* has called prepareForUser, the round is in AwaitingInput); and the callback
\* that calls prepareForUser schedules no other.
C16_CountdownTerminates ==
    /\ []<><<StartStep>>_vars \/ <>[](buttons # << >> => AwaitingInput)
    /\ [][\A i \in 1..Len(timers) :
             (TimerFire(i) /\ ~timers[i].stale /\ timers[i].remaining <= 0) =>
                (OwnTimers' = {} /\ Len(timers') = Len(timers) - 1)]_vars

\* C16 witness: the countdown of a round of seven pieces has ended and no
\* callback is pending.
C16_Witness ==
    /\ lastOp = [op |-> "prepare", flag |-> FALSE]
    /\ Len(buttons) = MaxButtons
    /\ AwaitingInput
    /\ timers = << >>

\* C17: in AwaitingInput, as long as no wrong click has occurred in the round, a
\* piece's label is visible exactly when its originalOrder < expectedOrder and its
\* click handler is installed exactly when its originalOrder >= expectedOrder.
C17_RevealedPrefix ==
    (AwaitingInput /\ MsgWrong \notin shownMsgs) =>
        \A k \in 1..Len(buttons) :
            /\ buttons[k].shown <=> buttons[k].order < expectedOrder
            /\ buttons[k].onclick <=> buttons[k].order >= expectedOrder

\* C18: once the win message has been shown in a round, until the next startGame
\* every piece stays revealed with clicks disabled, expectedOrder stays n + 1 and
\* the wrong-order message is not shown; once the wrong-order message has been
\* shown in a round, the win message is not shown until the next startGame.
C18_WonTerminal ==
    [][~StartStep =>
          /\ MsgWin \in shownMsgs =>
                /\ AllRevealedAndDisabled(buttons) /\ AllRevealedAndDisabled(buttons')
                /\ expectedOrder = Len(buttons) + 1
                /\ expectedOrder' = expectedOrder
                /\ MsgWrong \notin shownMsgs'
                /\ status' # MsgWrong
          /\ MsgWrong \in shownMsgs =>
                /\ MsgWin \notin shownMsgs'
                /\ status' # MsgWin]_vars

=============================================================================
